---- MODULE Spec2Model ----
(***************************************************************************)
(* A model of three parts of the columnar array library:                   *)
(*   - bitmap/mutable.rs          MutableBitmap, the bit-packed builder    *)
(*   - array/growable/primitive.rs GrowablePrimitive                       *)
(*   - compute/sort/mod.rs        sort, sort_to_indices, can_sort          *)
(* Bytes are integers 0..255, a buffer is a sequence of bytes (1-indexed   *)
(* in TLA+, 0-indexed in the source), a bit index is 0-based as in the     *)
(* source.                                                                 *)
(***************************************************************************)
EXTENDS Integers, Sequences, FiniteSets, TLC

VARIABLES
    bitmap,     \* the MutableBitmap under test: [buffer, length]
    vec,        \* the Vec<bool> to which the same appends and writes are applied
    last,       \* the last MutableBitmap operation, its arguments and the state before it
    returned,   \* what the last MutableBitmap call returned, or that it panicked
    sources,    \* the source arrays a GrowablePrimitive was constructed from
    asked,      \* the use_validity argument GrowablePrimitive::new was called with
    growable,   \* the GrowablePrimitive: [use_validity, validity, values]
    calls,      \* the calls made on the GrowablePrimitive so far
    result,     \* the arrays finalized from the GrowablePrimitive, in order
    input,      \* the arguments of a sort call: [values, options, limit]
    indices,    \* the outcome of sort_to_indices(input)
    sorted,     \* the outcome of sort(input)
    list        \* the FixedSizeListArray under test and the call that made it

vars == <<bitmap, vec, last, returned, sources, asked, growable, calls, result, input, indices, sorted, list>>

bitmapVars == <<bitmap, vec, last, returned>>
growableVars == <<sources, asked, growable, calls, result>>
sortVars == <<input, indices, sorted>>
listVars == <<list>>

(***************************************************************************)
(* Bounds of the model.                                                    *)
(***************************************************************************)
\* most operations applied to one MutableBitmap in SpecBitmap
MaxOps == 3
\* longest bitmap built by pushes before the bulk extension in SpecExtend
MaxPush == 9
\* longest iterator handed to extend_from_trusted_len_iter in SpecExtend
MaxIter == 17

Min(a, b) == IF a < b THEN a ELSE b
Max(a, b) == IF a < b THEN b ELSE a

\* ceil(n / 8): n.saturating_add(7) / 8
BytesFor(n) == (n + 7) \div 8

(***************************************************************************)
(* bitmap/utils: bit access on bytes (not among the source files; modelled *)
(* from its use and the glossary: bit i of a bitmap is bit i % 8, least    *)
(* significant first, of byte i / 8).                                      *)
(***************************************************************************)
BIT_MASK(i) == <<1, 2, 4, 8, 16, 32, 64, 128>>[i + 1]

\* whether bit i (0..7) of a byte is set
is_set(byte, i) == (byte \div BIT_MASK(i)) % 2 = 1

\* utils::set(byte, i, value): the byte with bit i made equal to value
set(byte, i, value) ==
    IF value
    THEN IF is_set(byte, i) THEN byte ELSE byte + BIT_MASK(i)
    ELSE IF is_set(byte, i) THEN byte - BIT_MASK(i) ELSE byte

\* utils::get_bit(data, i): panics when byte i / 8 is out of range
get_bit(data, i) == is_set(data[(i \div 8) + 1], i % 8)

\* utils::set_bit(data, i, value)
set_bit(data, i, value) ==
    [data EXCEPT ![(i \div 8) + 1] = set(@, i % 8, value)]

\* BitmapIter::new(slice, offset, length): the bits offset .. offset+length of slice
BitmapIter(slice, offset, length) ==
    [k \in 1..length |-> get_bit(slice, offset + k - 1)]

\* `for value in iter { if value { *byte = set(*byte, i, true) }; i += 1 }`:
\* bits are only ever switched on, starting at bit `start` of the byte
RECURSIVE set_trues(_, _, _)
set_trues(byte, start, it) ==
    IF it = <<>> THEN byte
    ELSE set_trues(IF Head(it) THEN set(byte, start, TRUE) ELSE byte, start + 1, Tail(it))

\* MutableBuffer::extend_constant(n, 0) / from_len_zeroed(n)
zeroed(n) == [k \in 1..n |-> 0]

\* MutableBuffer::resize(n, 0): truncates or pads with zero bytes
resize(buffer, n) ==
    IF n <= Len(buffer) THEN SubSeq(buffer, 1, n)
    ELSE buffer \o zeroed(n - Len(buffer))

(***************************************************************************)
(* MutableBitmap                                                           *)
(***************************************************************************)
\* Option<Bitmap>: a record whose field `some` tells Some from None
None == [some |-> FALSE, bytes |-> <<>>, offset |-> 0, length |-> 0]

Some(bytes, offset, length) ==
    [some |-> TRUE, bytes |-> bytes, offset |-> offset, length |-> length]

\* what a call returned: nothing, a bit, an Option<Bitmap>; or its panic
Unit == [kind |-> "Unit", bit |-> FALSE, option |-> None]
Bool(bit) == [kind |-> "Bool", bit |-> bit, option |-> None]
Converted(option) == [kind |-> "Option", bit |-> FALSE, option |-> option]
Panicked == [kind |-> "Panic", bit |-> FALSE, option |-> None]

\* MutableBitmap::new()
new == [buffer |-> <<>>, length |-> 0]

\* MutableBitmap::len
len(m) == m.length

\* MutableBitmap::get(index); the caller keeps index < len
get(m, index) == get_bit(m.buffer, index)

\* the bits a reader of the bitmap sees: get(i) for every i < len()
Bits(m) == [k \in 1..m.length |-> get(m, k - 1)]

\* MutableBitmap::push(value): the byte written is the LAST byte of the buffer
push(m, value) ==
    LET buf1 == IF m.length % 8 = 0 THEN Append(m.buffer, 0) ELSE m.buffer
        n    == Len(buf1)
        buf2 == IF value THEN [buf1 EXCEPT ![n] = set(@, m.length % 8, TRUE)] ELSE buf1
    IN  [buffer |-> buf2, length |-> m.length + 1]

\* fn extend(buffer, length, iterator) applied to buffer[base..]: whole bytes
\* first, eight bits each, then the remainder into byte `chunks`
extend_skip_reminder(buffer, base, length, it) ==
    LET chunks == length \div 8
    IN  [j \in 1..Len(buffer) |->
            IF j > base /\ j <= base + chunks
            THEN set_trues(buffer[j], 0, SubSeq(it, 8 * (j - base - 1) + 1, 8 * (j - base)))
            ELSE buffer[j]]

extend(buffer, base, length, it) ==
    LET chunks   == length \div 8
        reminder == length % 8
    IN  [j \in 1..Len(buffer) |->
            IF j > base /\ j <= base + chunks
            THEN set_trues(buffer[j], 0, SubSeq(it, 8 * (j - base - 1) + 1, 8 * (j - base)))
            ELSE IF reminder # 0 /\ j = base + chunks + 1
            THEN set_trues(buffer[j], 0, SubSeq(it, 8 * chunks + 1, length))
            ELSE buffer[j]]

\* MutableBitmap::extend_from_trusted_len_iter_unchecked(iterator), the
\* iterator given as the sequence it yields
extend_from_trusted_len_iter(m, it) ==
    LET length     == Len(it)
        bit_offset == m.length % 8
    IN  IF length < 8 - bit_offset
        THEN \* the iterator will not fill the last byte
             LET buf1 == IF bit_offset = 0 THEN Append(m.buffer, 0) ELSE m.buffer
                 n    == Len(buf1)
             IN  [buffer |-> [buf1 EXCEPT ![n] = set_trues(@, bit_offset, it)],
                  length |-> m.length + length]
        ELSE LET head  == IF bit_offset # 0 THEN 8 - bit_offset ELSE 0
                 n     == Len(m.buffer)
                 \* we are in the middle of a byte; lets finish it
                 buf1  == IF bit_offset # 0
                          THEN [m.buffer EXCEPT ![n] = set_trues(@, bit_offset, SubSeq(it, 1, head))]
                          ELSE m.buffer
                 len1  == m.length + head
                 rest  == SubSeq(it, head + 1, length)
                 \* everything is aligned; proceed with the bulk operation
                 buf2  == buf1 \o zeroed((Len(rest) + 7) \div 8)
             IN  [buffer |-> extend(buf2, len1 \div 8, Len(rest), rest),
                  length |-> len1 + Len(rest)]

\* MutableBitmap::extend_constant(additional, value)
extend_constant(m, additional, value) ==
    IF value
    THEN extend_from_trusted_len_iter(m, [k \in 1..additional |-> TRUE])
    ELSE [buffer |-> resize(m.buffer, BytesFor(m.length + additional)),
          length |-> m.length + additional]

\* MutableBitmap::extend_from_slice(slice, offset, length); the caller keeps
\* offset + length <= slice.len() * 8 (the assertion)
extend_from_slice(m, slice, offset, length) ==
    IF m.length % 8 = 0 /\ offset % 8 = 0
    THEN LET aligned_offset == offset \div 8
             bytes_len      == BytesFor(length)
         IN  [buffer |-> m.buffer \o SubSeq(slice, aligned_offset + 1, aligned_offset + bytes_len),
              length |-> m.length + length]
    ELSE extend_from_trusted_len_iter(m, BitmapIter(slice, offset, length))

\* the variant of set that only ever switches a bit on
set_at_true_only(m, index, value) ==
    IF value THEN [m EXCEPT !.buffer = set_bit(@, index, TRUE)] ELSE m

\* MutableBitmap::set(index, value); the caller keeps index < len
set_at(m, index, value) == [m EXCEPT !.buffer = set_bit(@, index, value)]

(***************************************************************************)
(* Inputs of the MutableBitmap operations.                                 *)
(***************************************************************************)
\* every boolean sequence of length at most n
BoolSeqs(n) == UNION {[1..k -> BOOLEAN] : k \in 0..n}

\* the sequence (0..n).map(|i| (i % k == 0) == b), as in test_extend
Pattern(n, k, b) == [i \in 1..n |-> ((i - 1) % k = 0) = b]

\* iterators of the general specification: every short one, and some that
\* fill whole bytes
IterInputs == {<<>>, <<TRUE>>, <<FALSE>>, <<TRUE, FALSE>>, <<FALSE, TRUE>>,
               Pattern(8, 2, TRUE), Pattern(9, 3, FALSE)}

\* run lengths of extend_constant in SpecBitmap
ConstInputs == {0, 1, 2, 8}

\* (offset, length) windows of extend_from_slice in SpecBitmap: aligned and
\* unaligned offsets, empty, partial-byte and whole-byte lengths
SliceWindows == {<<0, 0>>, <<0, 2>>, <<0, 8>>, <<3, 0>>, <<3, 2>>, <<8, 1>>}

\* iterators of SpecExtend: up to two whole bytes and a remainder
LongIters == {Pattern(n, k, b) : n \in 0..MaxIter, k \in 1..2, b \in BOOLEAN}

\* byte slices extend_from_slice copies from: 0b00001101 and 0b10100110, 0b00000001
Slices == {<<13>>, <<166, 1>>}

\* the operation before the last one: its name, arguments and the state before it
NoPrev == [op |-> "none", pre |-> new, value |-> FALSE, index |-> 0]

NoOp == [op |-> "new", pre |-> new, pre_pushes |-> TRUE, it |-> <<>>,
         additional |-> 0, value |-> FALSE, index |-> 0, steps |-> 0, prev |-> NoPrev]

\* the bitmap was built from new() by pushes alone
PushesOnly == last.op \in {"new", "push"} /\ last.pre_pushes

Record(op, it, additional, value, index) ==
    [op |-> op, pre |-> bitmap, pre_pushes |-> PushesOnly, it |-> it,
     additional |-> additional, value |-> value, index |-> index,
     steps |-> last.steps + 1,
     prev |-> [op |-> last.op, pre |-> last.pre, value |-> last.value, index |-> last.index]]

\* a run ends with the call whose return value is observed
MoreOps == last.steps < MaxOps /\ returned.kind = "Unit"

(***************************************************************************)
(* Actions on the MutableBitmap; each applies the same append or write to  *)
(* vec.                                                                    *)
(***************************************************************************)
Push ==
    \E value \in BOOLEAN :
        /\ bitmap' = push(bitmap, value)
        /\ vec' = Append(vec, value)
        /\ last' = Record("push", <<>>, 0, value, 0)
        /\ UNCHANGED <<returned, growableVars, sortVars, listVars>>

ExtendConstant ==
    \E additional \in ConstInputs, value \in BOOLEAN :
        /\ MoreOps
        /\ bitmap' = extend_constant(bitmap, additional, value)
        /\ vec' = vec \o [k \in 1..additional |-> value]
        /\ last' = Record("extend_constant", <<>>, additional, value, 0)
        /\ UNCHANGED <<returned, growableVars, sortVars, listVars>>

ExtendFromTrustedLenIter ==
    \E it \in IterInputs :
        /\ MoreOps
        /\ bitmap' = extend_from_trusted_len_iter(bitmap, it)
        /\ vec' = vec \o it
        /\ last' = Record("extend_from_trusted_len_iter", it, 0, FALSE, 0)
        /\ UNCHANGED <<returned, growableVars, sortVars, listVars>>

ExtendFromSlice ==
    \E slice \in Slices, w \in SliceWindows :
        LET offset == w[1]
            length == w[2]
        IN  /\ MoreOps
            /\ offset + length <= 8 * Len(slice)
            /\ bitmap' = extend_from_slice(bitmap, slice, offset, length)
            /\ vec' = vec \o BitmapIter(slice, offset, length)
            /\ last' = Record("extend_from_slice", BitmapIter(slice, offset, length),
                              0, FALSE, offset)
            /\ UNCHANGED <<returned, growableVars, sortVars, listVars>>

Set ==
    \E index \in 0..(bitmap.length - 1), value \in BOOLEAN :
        /\ MoreOps
        /\ bitmap' = set_at(bitmap, index, value)
        /\ vec' = [vec EXCEPT ![index + 1] = value]
        /\ last' = Record("set", <<>>, 0, value, index)
        /\ UNCHANGED <<returned, growableVars, sortVars, listVars>>

\* SpecExtend: one bulk extension of a bitmap built by pushes
ExtendLong ==
    \E it \in LongIters :
        /\ PushesOnly
        /\ bitmap' = extend_from_trusted_len_iter(bitmap, it)
        /\ vec' = vec \o it
        /\ last' = Record("extend_from_trusted_len_iter", it, 0, FALSE, 0)
        /\ UNCHANGED <<returned, growableVars, sortVars, listVars>>

\* SpecBitmap: a push among the other operations
PushAny == MoreOps /\ Push

\* SpecExtend: the pushes that build the bitmap
PushOnly == PushesOnly /\ bitmap.length < MaxPush /\ Push

\* values of the variables a specification does not use
IdleGrowable ==
    /\ sources = <<>>
    /\ asked = FALSE
    /\ growable = [use_validity |-> FALSE, validity |-> new, values |-> <<>>]
    /\ calls = <<>>
    /\ result = <<>>

IdleSort ==
    /\ input = [values |-> <<>>, options |-> <<>>, limit |-> <<>>]
    /\ indices = <<>>
    /\ sorted = <<>>

\* no FixedSizeListArray: the value of its fields before a constructor ran
NoArray == [size |-> 0, values |-> <<>>, validity |-> None, offset |-> 0]
NoList == [op |-> "none", made_by |-> "none", array |-> NoArray, parent |-> NoArray,
           panic |-> FALSE, size |-> 0, offset |-> 0, length |-> 0, slices |-> 0]

IdleList == list = NoList

IdleBitmap ==
    /\ bitmap = new
    /\ vec = <<>>
    /\ last = NoOp
    /\ returned = Unit

InitBitmap == IdleBitmap /\ IdleGrowable /\ IdleSort /\ IdleList

NextBitmap == PushAny \/ ExtendConstant \/ ExtendFromTrustedLenIter \/ ExtendFromSlice \/ Set

\* MutableBitmap under every sequence of its public operations
SpecBitmap == InitBitmap /\ [][NextBitmap]_vars

NextExtend == PushOnly \/ ExtendLong

\* a MutableBitmap built by pushes, then extended once from an iterator
SpecExtend == InitBitmap /\ [][NextExtend]_vars

(***************************************************************************)
(* MutableBitmap: claims                                                   *)
(***************************************************************************)

\* C8: after any sequence of push, extend_constant, extend_from_trusted_len_iter,
\* extend_from_slice and set from MutableBitmap::new(), len() and get(i) for
\* every i < len() equal the length and the elements of the Vec<bool> that
\* received the same appends and writes.
C8_EquivalentToVec ==
    /\ len(bitmap) = Len(vec)
    /\ \A i \in 0..(len(bitmap) - 1) : get(bitmap, i) = vec[i + 1]

\* C9: extend_constant(n, value) in any reachable state increases len() by n,
\* makes every bit in [old_len, old_len + n) equal to value and leaves every
\* bit below old_len unchanged.
C9_ExtendConstant ==
    last.op = "extend_constant" =>
        /\ len(bitmap) = len(last.pre) + last.additional
        /\ \A i \in len(last.pre)..(len(bitmap) - 1) : get(bitmap, i) = last.value
        /\ \A i \in 0..(len(last.pre) - 1) : get(bitmap, i) = get(last.pre, i)

\* pushing the elements of a sequence one by one
RECURSIVE push_all(_, _)
push_all(m, it) == IF it = <<>> THEN m ELSE push_all(push(m, Head(it)), Tail(it))

\* C10: extending a bitmap built by pushes (any bit offset 0..7) through
\* extend_from_trusted_len_iter yields the same length and the same bits as
\* pushing the elements one by one.
C10_ExtendIterIsPushes ==
    (last.op = "extend_from_trusted_len_iter" /\ last.pre_pushes) =>
        /\ len(bitmap) = len(push_all(last.pre, last.it))
        /\ Bits(bitmap) = Bits(push_all(last.pre, last.it))

\* C10 witness: a bitmap in the middle of a byte was extended by an iterator
\* that finishes the byte, fills a whole byte and leaves a remainder, and
\* that holds both true and false
C10_Witness ==
    /\ last.op = "extend_from_trusted_len_iter"
    /\ last.pre_pushes
    /\ len(last.pre) % 8 = 3
    /\ Len(last.it) = 5 + 8 + 2
    /\ \E i, j \in 1..Len(last.it) : last.it[i] /\ ~last.it[j]
    /\ \E i \in 0..2 : get(last.pre, i)

(***************************************************************************)
(* Bitmap (immutable) and PrimitiveArray, as GrowablePrimitive and the     *)
(* sort kernel read them.  An Option<Bitmap> is a record whose field `some`   *)
(* tells Some from None.                                                   *)
(***************************************************************************)
\* utils::null_count(buffer, offset, length): the unset bits of the window
null_count(buffer, offset, length) ==
    Cardinality({i \in 0..(length - 1) : ~get_bit(buffer, offset + i)})

\* MutableBitmap::null_count
unset_bits(m) == null_count(m.buffer, 0, m.length)

\* the variant of the conversion that always keeps the bitmap
into_option_some(m) == Some(m.buffer, 0, m.length)

\* From<MutableBitmap> for Option<Bitmap>
into_option(m) ==
    IF unset_bits(m) > 0
    THEN Some(m.buffer, 0, m.length)
    ELSE None

\* MutableBitmap::from_trusted_len_iter(iterator)
from_trusted_len_iter(it) ==
    [buffer |-> extend(zeroed((Len(it) + 7) \div 8), 0, Len(it), it), length |-> Len(it)]

\* Bitmap::slice(offset, length)
bitmap_slice(b, offset, length) ==
    Some(b.bytes, b.offset + offset, length)

\* Bitmap::get_bit(i)
bitmap_get_bit(b, i) == get_bit(b.bytes, b.offset + i)

\* whether slot i of an array is valid: an absent validity means all valid
is_valid(array, i) ==
    IF array.validity = None THEN TRUE ELSE bitmap_get_bit(array.validity, i)

\* Array::null_count
array_null_count(array) ==
    IF array.validity = None THEN 0
    ELSE null_count(array.validity.bytes, array.validity.offset, array.validity.length)

\* PrimitiveArray::<u8>::from(vec![Some(1), None, ..]): a None slot is the
\* integer -1 in `data`; it is stored as T::default() = 0 with its bit unset
from_options(data) ==
    [values   |-> [k \in 1..Len(data) |-> IF data[k] < 0 THEN 0 ELSE data[k]],
     validity |-> into_option(from_trusted_len_iter([k \in 1..Len(data) |-> data[k] >= 0]))]

\* PrimitiveArray::slice(offset, length)
array_slice(array, offset, length) ==
    [values   |-> SubSeq(array.values, offset + 1, offset + length),
     validity |-> IF array.validity = None THEN None
                  ELSE bitmap_slice(array.validity, offset, length)]

(***************************************************************************)
(* MutableBitmap: get and set at any index, and the conversion into        *)
(* Option<Bitmap>.  The bitmap is built by pushes, constant runs and       *)
(* slices; the run ends with a get, a set that panics, or the conversion.  *)
(***************************************************************************)
\* the indices tried: the first and the last bit, the first index past the
\* length, the last bit of the buffer and the first index past the buffer
AccessIndices(m) ==
    {i \in {0, m.length - 1, m.length, 8 * Len(m.buffer) - 1, 8 * Len(m.buffer)} : i >= 0}

\* utils::get_bit and set_bit index the byte index / 8 of the buffer: the
\* call panics when the buffer has no such byte
byte_in_range(m, index) == index \div 8 < Len(m.buffer)

\* MutableBitmap::get(index), with its panic
get_outcome(m, index) ==
    IF byte_in_range(m, index) THEN Bool(get(m, index)) ELSE Panicked

\* MutableBitmap::get(index)
Get ==
    \E index \in AccessIndices(bitmap) :
        /\ MoreOps
        /\ returned' = get_outcome(bitmap, index)
        /\ last' = Record("get", <<>>, 0, FALSE, index)
        /\ UNCHANGED <<bitmap, vec, growableVars, sortVars, listVars>>

\* MutableBitmap::set(index, value) at any index, with its panic
SetAny ==
    \E index \in AccessIndices(bitmap), value \in BOOLEAN :
        /\ MoreOps
        /\ IF byte_in_range(bitmap, index)
           THEN /\ bitmap' = set_at(bitmap, index, value)
                /\ returned' = Unit
           ELSE /\ bitmap' = bitmap
                /\ returned' = Panicked
        /\ vec' = IF index < Len(vec) THEN [vec EXCEPT ![index + 1] = value] ELSE vec
        /\ last' = Record("set", <<>>, 0, value, index)
        /\ UNCHANGED <<growableVars, sortVars, listVars>>

\* From<MutableBitmap> for Option<Bitmap>: the bitmap is moved out
IntoOption ==
    /\ MoreOps
    /\ returned' = Converted(into_option(bitmap))
    /\ last' = Record("into", <<>>, 0, FALSE, 0)
    /\ UNCHANGED <<bitmap, vec, growableVars, sortVars, listVars>>

NextAccess == PushAny \/ ExtendConstant \/ ExtendFromSlice \/ Get \/ SetAny \/ IntoOption

\* a MutableBitmap that is built, then read, written or converted
SpecAccess == InitBitmap /\ [][NextAccess]_vars

\* C11: the conversion of a MutableBitmap into Option<Bitmap> is None exactly
\* when no bit in [0, len()) is false (the empty bitmap included), and
\* otherwise Some(bitmap) of the same length and the same bits.
C11_IntoOption ==
    returned.kind = "Option" =>
        LET m == last.pre
            o == returned.option
        IN  /\ (o = None) <=> (\A i \in 0..(len(m) - 1) : get(m, i))
            /\ o.some =>
                  /\ o.length = len(m)
                  /\ \A i \in 0..(len(m) - 1) : bitmap_get_bit(o, i) = get(m, i)

\* a bitmap of a length that is not a multiple of 8, with set and unset
\* bits, was converted
C11_Witness ==
    /\ returned.kind = "Option"
    /\ returned.option.some
    /\ returned.option.length % 8 = 3
    /\ \E i, j \in 0..(len(last.pre) - 1) : get(last.pre, i) /\ ~get(last.pre, j)

\* C12: extend_from_slice on the fast path (length of the bitmap and offset
\* both multiples of 8) gives the length and the bits in [0, len()) that the
\* iterator path gives on the same bits, for every length.
C12_FastPathIsIterPath ==
    (last.op = "extend_from_slice" /\ last.pre.length % 8 = 0 /\ last.index % 8 = 0) =>
        LET by_iter == extend_from_trusted_len_iter(last.pre, last.it)
        IN  /\ len(bitmap) = len(by_iter)
            /\ Bits(bitmap) = Bits(by_iter)

\* C17: get(index) and set(index, value) panic if and only if
\* index >= len().
C17_PanicIffOutOfRange ==
    last.op \in {"get", "set"} =>
        ((returned.kind = "Panic") <=> (last.index >= len(last.pre)))

(***************************************************************************)
(* GrowablePrimitive                                                       *)
(***************************************************************************)
\* the arrays a GrowablePrimitive is built over: without nulls, with nulls,
\* sliced with a non-zero offset, sliced so that the window holds no null
SourceArrays ==
    { from_options(<<1, 2, 3>>),
      array_slice(from_options(<<1, -1, 3>>), 1, 2),
      array_slice(from_options(<<7, 8, -1>>), 1, 1),
      from_options(<<-1, 5>>) }

\* (start, len) ranges of extend
ExtendRanges == {<<0, 0>>, <<0, 1>>, <<0, 2>>, <<1, 1>>}

\* counts of extend_validity
NullRuns == {0, 1}

\* most calls made on one GrowablePrimitive
MaxCalls == 3

\* growable::utils::extend_validity(mutable_validity, validity, start, len, use_validity)
extend_validity(mutable_validity, validity, start, length, use_validity) ==
    IF validity # None
    THEN extend_from_slice(mutable_validity, validity.bytes, validity.offset + start, length)
    ELSE IF use_validity
    THEN extend_constant(mutable_validity, length, TRUE)
    ELSE mutable_validity

\* the variant of new that keeps use_validity as it was passed
growable_new_as_asked(arrays, use_validity) ==
    [use_validity |-> use_validity, validity |-> new, values |-> <<>>]

\* GrowablePrimitive::new(arrays, use_validity, capacity)
growable_new(arrays, use_validity) ==
    [use_validity |-> use_validity \/ (\E k \in 1..Len(arrays) : array_null_count(arrays[k]) > 0),
     validity     |-> new,
     values       |-> <<>>]

\* GrowablePrimitive::extend(index, start, len)
growable_extend_no_values(g, arrays, index, start, length) ==
    [g EXCEPT !.validity = extend_validity(@, arrays[index + 1].validity, start, length,
                                           g.use_validity)]

growable_extend(g, arrays, index, start, length) ==
    [g EXCEPT !.validity = extend_validity(@, arrays[index + 1].validity, start, length,
                                           g.use_validity),
              !.values   = @ \o SubSeq(arrays[index + 1].values, start + 1, start + length)]

\* GrowablePrimitive::extend_validity(additional)
growable_extend_validity(g, additional) ==
    [g EXCEPT !.values   = @ \o [k \in 1..additional |-> 0],
              !.validity = extend_constant(@, additional, FALSE)]

\* the variant of `to` that leaves the accumulated values and validity
keep(g) == g

\* std::mem::take of validity and values in `to`: both are left empty
take_accumulated(g) == [g EXCEPT !.validity = new, !.values = <<>>]

\* PrimitiveArray::from_data(data_type, values.into(), validity.into())
growable_to(g) == [values |-> g.values, validity |-> into_option(g.validity)]

Extend ==
    \E index \in 0..(Len(sources) - 1), r \in ExtendRanges :
        /\ Len(calls) < MaxCalls
        /\ r[1] + r[2] <= Len(sources[index + 1].values)
        /\ growable' = growable_extend(growable, sources, index, r[1], r[2])
        /\ calls' = Append(calls, [op |-> "extend", index |-> index, start |-> r[1], len |-> r[2]])
        /\ UNCHANGED <<sources, asked, result, bitmapVars, sortVars, listVars>>

ExtendValidity ==
    \E additional \in NullRuns :
        /\ Len(calls) < MaxCalls
        /\ growable' = growable_extend_validity(growable, additional)
        /\ calls' = Append(calls, [op |-> "extend_validity", index |-> 0, start |-> 0,
                                   len |-> additional])
        /\ UNCHANGED <<sources, asked, result, bitmapVars, sortVars, listVars>>

\* as_arc / as_box / into: `to` takes the accumulated values and validity
AsArc ==
    /\ Len(calls) <= MaxCalls
    /\ result' = Append(result, growable_to(growable))
    /\ growable' = take_accumulated(growable)
    /\ calls' = Append(calls, [op |-> "as_arc", index |-> 0, start |-> 0, len |-> 0])
    /\ UNCHANGED <<sources, asked, bitmapVars, sortVars, listVars>>

InitGrowable ==
    /\ \E a \in SourceArrays, b \in SourceArrays, use_validity \in BOOLEAN :
        /\ sources = <<a, b>>
        /\ asked = use_validity
        /\ growable = growable_new(sources, use_validity)
    /\ calls = <<>>
    /\ result = <<>>
    /\ IdleBitmap
    /\ IdleSort
    /\ IdleList

NextGrowable == Extend \/ ExtendValidity \/ AsArc

\* a GrowablePrimitive over two source arrays
SpecGrowable == InitGrowable /\ [][NextGrowable]_vars

(***************************************************************************)
(* GrowablePrimitive: claims                                               *)
(***************************************************************************)
\* the calls were extend(0, s0, l0), extend(1, s1, l1) and the finalization
TwoExtends ==
    /\ Len(calls) = 3
    /\ calls[1].op = "extend" /\ calls[1].index = 0
    /\ calls[2].op = "extend" /\ calls[2].index = 1
    /\ calls[3].op = "as_arc"

\* C1: after extend(0, s0, l0), extend(1, s1, l1) the finalized array has
\* length l0 + l1, its values are A[s0..s0+l0] followed by B[s1..s1+l1], and
\* each output position is valid exactly when the source position it was
\* copied from is valid (sources without a bitmap being all valid).
C1_GrowablePreserves ==
    TwoExtends =>
        LET a   == sources[1]
            b   == sources[2]
            s0  == calls[1].start
            l0  == calls[1].len
            s1  == calls[2].start
            l1  == calls[2].len
            out == result[1]
        IN  /\ Len(out.values) = l0 + l1
            /\ out.values = SubSeq(a.values, s0 + 1, s0 + l0) \o SubSeq(b.values, s1 + 1, s1 + l1)
            /\ \A i \in 0..(l0 - 1) : is_valid(out, i) = is_valid(a, s0 + i)
            /\ \A i \in 0..(l1 - 1) : is_valid(out, l0 + i) = is_valid(b, s1 + i)

\* the slots a call appends: the slots of the source range for extend,
\* nulls with the value T::default() for extend_validity
appended(call) ==
    IF call.op = "extend"
    THEN [k \in 1..call.len |->
             [value |-> sources[call.index + 1].values[call.start + k],
              valid |-> is_valid(sources[call.index + 1], call.start + k - 1)]]
    ELSE IF call.op = "extend_validity"
    THEN [k \in 1..call.len |-> [value |-> 0, valid |-> FALSE]]
    ELSE <<>>

RECURSIVE appended_by(_)
\* the slots a sequence of calls appends
appended_by(cs) ==
    IF cs = <<>> THEN <<>> ELSE appended(Head(cs)) \o appended_by(Tail(cs))

\* the positions of the finalizations among the calls
Finalizations == {k \in 1..Len(calls) : calls[k].op = "as_arc"}

\* the position of the j-th finalization, 0 for j = 0
finalization(j) ==
    IF j = 0 THEN 0
    ELSE CHOOSE k \in Finalizations : Cardinality({i \in Finalizations : i <= k}) = j

\* the calls made between the finalization before the j-th and the j-th
calls_of(j) == SubSeq(calls, finalization(j - 1) + 1, finalization(j) - 1)

\* the calls made since the last finalization
pending_calls == SubSeq(calls, finalization(Cardinality(Finalizations)) + 1, Len(calls))

\* C13: extend_validity(additional) appends `additional` elements that are
\* null in the finalized array, with the value T::default(), for either
\* value of use_validity and anywhere among extend calls, whose elements
\* keep their values and validity.
C13_ExtendValidityAppendsNulls ==
    (result # <<>> /\ \E k \in 1..Len(calls_of(1)) : calls_of(1)[k].op = "extend_validity") =>
        LET out == result[1]
            slots == appended_by(calls_of(1))
        IN  /\ Len(out.values) = Len(slots)
            /\ \A i \in 1..Len(slots) : out.values[i] = slots[i].value
            /\ out.validity.some => out.validity.length = Len(slots)
            /\ \A i \in 1..Len(slots) : is_valid(out, i - 1) = slots[i].valid

\* the source arrays that have a null, and those that have a validity bitmap
HasNulls == \E k \in 1..Len(sources) : array_null_count(sources[k]) > 0
HasBitmap == \E k \in 1..Len(sources) : sources[k].validity # None

\* C14 as stated: with use_validity = false and a validity bitmap present in
\* any source array, the builder tracks validity, and every extend appends
\* validity bits.
C14_PromotedOnBitmap ==
    (sources # <<>> /\ ~asked /\ HasBitmap) =>
        /\ growable.use_validity
        /\ len(growable.validity) = Len(growable.values)

\* C14: the builder tracks validity exactly when use_validity was passed as
\* true or a source array has a null (null_count() > 0); then every extend
\* and extend_validity appends as many validity bits as values.
C14_PromotedOnNulls ==
    sources # <<>> =>
        /\ growable.use_validity = (asked \/ HasNulls)
        /\ growable.use_validity => len(growable.validity) = Len(growable.values)

\* a builder asked not to track validity over a source with a null and a
\* source without a bitmap has appended a slot of the latter
C14_Witness ==
    /\ sources # <<>> /\ ~asked
    /\ sources[1].validity = None /\ array_null_count(sources[2]) > 0
    /\ growable.use_validity
    /\ Len(calls) = 1 /\ calls[1].op = "extend" /\ calls[1].index = 0 /\ calls[1].len = 2
    /\ len(growable.validity) = 2

\* C15: a finalization moves the accumulated values and validity out and
\* resets the accumulator: a finalization that follows another with no call
\* in between returns an array of length 0, and each finalized array holds
\* the elements appended since the finalization before it, and only those.
C15_FinalizationResets ==
    /\ Len(result) = Cardinality(Finalizations)
    /\ \A j \in 1..Len(result) :
          /\ result[j].values = [i \in 1..Len(appended_by(calls_of(j))) |->
                                    appended_by(calls_of(j))[i].value]
          /\ calls_of(j) = <<>> => result[j] = [values |-> <<>>, validity |-> None]
    /\ growable.values = [i \in 1..Len(appended_by(pending_calls)) |->
                             appended_by(pending_calls)[i].value]

\* two elements were finalized, then one more element
C15_Witness ==
    /\ Len(calls) = 4
    /\ Len(result) = 2
    /\ Len(result[1].values) = 2
    /\ Len(result[2].values) = 1
    /\ growable.values = <<>>

(***************************************************************************)
(* compute/sort: logical types.  A DataType is a record [tag, a, b]: tag   *)
(* is the variant, a and b its parameters (the time unit and the time      *)
(* zone, the interval unit, the child type of a list, the key and the      *)
(* value type of a dictionary); "" stands for an absent parameter.         *)
(***************************************************************************)
DT(tag, a, b) == [tag |-> tag, a |-> a, b |-> b]
Leaf(tag) == DT(tag, "", "")

IntTags == {"Int8", "Int16", "Int32", "Int64", "UInt8", "UInt16", "UInt32", "UInt64"}
TimeUnits == {"Second", "Millisecond", "Microsecond", "Nanosecond"}
IntervalUnits == {"YearMonth", "DayTime"}
LeafTags ==
    IntTags \cup {"Null", "Boolean", "Float16", "Float32", "Float64", "Date32", "Date64",
                  "Binary", "LargeBinary", "Utf8", "LargeUtf8", "Struct"}
ListTags == {"List", "LargeList", "FixedSizeList"}
\* child types of the lists, key and value types of the dictionaries of the catalogue
ChildTags == IntTags \cup {"Boolean", "Float32", "Float64", "Utf8", "Null"}
KeyTags == IntTags \cup {"Utf8"}
ValueTags == {"Utf8", "LargeUtf8", "Int32", "Binary"}

\* the logical types the model sorts arrays of
DataTypes ==
    {Leaf(t) : t \in LeafTags}
    \cup {DT(t, u, "") : t \in {"Time32", "Time64", "Duration"}, u \in TimeUnits}
    \cup {DT("Timestamp", u, tz) : u \in TimeUnits, tz \in {"", "UTC"}}
    \cup {DT("Interval", u, "") : u \in IntervalUnits}
    \cup {DT(t, c, "") : t \in ListTags, c \in ChildTags}
    \cup {DT("Dictionary", k, v) : k \in KeyTags, v \in ValueTags}

\* the types sort and sort_to_indices hand to the kernels of native values
is_native(t) ==
    \/ t.tag \in IntTags \cup {"Float32", "Float64", "Date32", "Date64"}
    \/ t.tag \in {"Time32", "Time64", "Duration", "Interval"}
    \/ t.tag = "Timestamp" /\ t.b = ""

\* the variant of can_sort that answers as sort_to_indices dispatches
can_sort_as_dispatch(data_type) ==
    \/ data_type.tag \in {"Boolean", "Utf8", "LargeUtf8"}
    \/ is_native(data_type)
    \/ data_type.tag \in ListTags /\ data_type.a \in IntTags
    \/ data_type.tag = "Dictionary" /\ data_type.b \in {"Utf8", "LargeUtf8"}
                                    /\ data_type.a \in IntTags

\* can_sort(data_type)
can_sort(data_type) ==
    CASE data_type.tag \in {"Boolean", "Int8", "Int16", "Int32", "Date32", "Time32",
                            "Interval", "Int64", "Date64", "Time64", "Duration",
                            "UInt8", "UInt16", "UInt32", "UInt64", "Float32", "Float64",
                            "Utf8", "LargeUtf8"} -> TRUE
      [] data_type.tag = "Timestamp" /\ data_type.b = "" -> TRUE
      [] data_type.tag \in ListTags -> data_type.a \in IntTags
      [] data_type.tag = "Dictionary" /\ data_type.b = "Utf8" -> data_type.a \in IntTags
      [] OTHER -> FALSE

(***************************************************************************)
(* compute/sort: arrays and outcomes.  An array is a record                *)
(* [data_type, valid, elems]: valid[i] is the validity of slot i and       *)
(* elems[i] its value, a sequence of naturals: the child values of a list  *)
(* slot, the bytes of a string, the one value of a native or boolean slot. *)
(* An outcome is Ok with a value, Err(NotYetImplemented) with the message  *)
(* and the type formatted into it, or Panic, the abort of the call.        *)
(***************************************************************************)
NoLimit == -1
NoType == Leaf("")
NoErr == [text |-> "", type |-> NoType]
NotRun == [kind |-> "NotRun", value |-> <<>>, nullable |-> FALSE, err |-> NoErr]
Ok(value) == [kind |-> "Ok", value |-> value, nullable |-> FALSE, err |-> NoErr]
NotYetImplemented(text, t) ==
    [kind |-> "Err", value |-> <<>>, nullable |-> FALSE, err |-> [text |-> text, type |-> t]]
Panic == [kind |-> "Panic", value |-> <<>>, nullable |-> FALSE, err |-> NoErr]

array_len(array) == Len(array.valid)

\* ListArray::value(i), FixedSizeListArray::value(i): the child values of slot i
list_value(array, i) == array.elems[i + 1]

RECURSIVE select(_, _, _)
\* the entries of a sequence of indices whose slot has validity bit, in order
select(array, want, bit) ==
    IF want = <<>> THEN <<>>
    ELSE IF array.valid[Head(want) + 1] = bit
         THEN <<Head(want)>> \o select(array, Tail(want), bit)
         ELSE select(array, Tail(want), bit)

\* the variant of partition_validity that returns the null indices first
partition_validity_swapped(array) ==
    LET all == [i \in 1..array_len(array) |-> i - 1]
    IN  IF \E i \in 1..array_len(array) : ~array.valid[i]
        THEN <<select(array, all, FALSE), select(array, all, TRUE)>>
        ELSE <<<<>>, all>>

\* partition_validity(array): the valid and the null indices, each ascending
partition_validity(array) ==
    LET all == [i \in 1..array_len(array) |-> i - 1]
    IN  IF \E i \in 1..array_len(array) : ~array.valid[i]
        THEN <<select(array, all, TRUE), select(array, all, FALSE)>>
        ELSE <<all, <<>>>>

\* Ordering::reverse; an abort stays an abort
reverse(ordering) ==
    CASE ordering = "Less" -> "Greater"
      [] ordering = "Greater" -> "Less"
      [] OTHER -> ordering

\* ord::build_compare(a, b)(i, i) on two primitive child arrays (not among the
\* source files): the order of the two values, and the abort of an
\* out-of-range index access when i is past the end of either
cmp_op(a, b, i) ==
    IF i >= Len(a) \/ i >= Len(b) THEN "Panic"
    ELSE IF a[i + 1] < b[i + 1] THEN "Less"
    ELSE IF a[i + 1] > b[i + 1] THEN "Greater"
    ELSE "Equal"

RECURSIVE cmp_array_from(_, _, _)
\* the loop of cmp_array from position i on
cmp_array_from(a, b, i) ==
    IF i >= Max(Len(a), Len(b)) THEN "Equal"
    ELSE LET r == cmp_op(a, b, i)
         IN  IF r # "Equal" THEN r ELSE cmp_array_from(a, b, i + 1)

\* cmp_array(a, b)
cmp_array(a, b) == cmp_array_from(a, b, 0)

\* the comparator of sort_list that forgets to reverse
list_compare_ascending(a, b, descending) == cmp_array(a, b)

\* the comparator sort_list hands to sort_by
list_compare(a, b, descending) ==
    IF ~descending THEN cmp_array(a, b) ELSE reverse(cmp_array(a, b))

RECURSIVE insert(_, _, _, _)
\* slice::sort_by, one insertion: x goes before the elements of the sorted
\* sequence s it is less than, scanning from position j down; [panic, v]
insert(s, x, j, descending) ==
    IF j = 0 THEN [panic |-> FALSE, v |-> <<x>> \o s]
    ELSE LET c == list_compare(x.array, s[j].array, descending)
         IN  IF c = "Panic" THEN [panic |-> TRUE, v |-> <<>>]
             ELSE IF c = "Less" THEN insert(s, x, j - 1, descending)
             ELSE [panic |-> FALSE, v |-> SubSeq(s, 1, j) \o <<x>> \o SubSeq(s, j + 1, Len(s))]

RECURSIVE sort_by(_, _)
\* slice::sort_by: the stable sort of the standard library (an insertion
\* sort on short slices); the abort of a comparison aborts the sort
sort_by(valids, descending) ==
    IF valids = <<>> THEN [panic |-> FALSE, v |-> <<>>]
    ELSE LET front == sort_by(SubSeq(valids, 1, Len(valids) - 1), descending)
         IN  IF front.panic THEN front
             ELSE insert(front.v, valids[Len(valids)], Len(front.v), descending)

\* MutableBuffer::truncate(limit.unwrap_or_else(|| values.len()))
truncate(buffer, limit) ==
    SubSeq(buffer, 1, Min(Len(buffer), IF limit = NoLimit THEN Len(buffer) ELSE limit))

\* the merge of sort_list that always puts the nulls last
merge_nulls_last(values, null_indices, nulls_first) == values \o null_indices

\* sort_list: null indices before or after the sorted valid indices
merge(values, null_indices, nulls_first) ==
    IF nulls_first THEN null_indices \o values ELSE values \o null_indices

\* the variant of sort_list that applies the limit to the valid indices
\* before the null indices are merged in
sort_list_limit_valids(values, value_indices, null_indices, options, limit) ==
    LET valids == [k \in 1..Len(value_indices) |->
                      [index |-> value_indices[k], array |-> list_value(values, value_indices[k])]]
        s == sort_by(valids, options.descending)
    IN  IF s.panic THEN Panic
        ELSE Ok(merge(truncate([k \in 1..Len(s.v) |-> s.v[k].index], limit),
                      null_indices, options.nulls_first))

\* the variant of sort_list that sorts ascending and, for descending,
\* reverses the sorted valid indices
sort_list_by_reversal(values, value_indices, null_indices, options, limit) ==
    LET valids == [k \in 1..Len(value_indices) |->
                      [index |-> value_indices[k], array |-> list_value(values, value_indices[k])]]
        s == sort_by(valids, FALSE)
        n == Len(s.v)
    IN  IF s.panic THEN Panic
        ELSE Ok(truncate(merge([k \in 1..n |-> IF options.descending
                                               THEN s.v[n + 1 - k].index
                                               ELSE s.v[k].index],
                               null_indices, options.nulls_first), limit))

\* sort_list(values, value_indices, null_indices, options, limit)
sort_list(values, value_indices, null_indices, options, limit) ==
    LET valids == [k \in 1..Len(value_indices) |->
                      [index |-> value_indices[k], array |-> list_value(values, value_indices[k])]]
        s == sort_by(valids, options.descending)
    IN  IF s.panic THEN Panic
        ELSE Ok(truncate(merge([k \in 1..Len(s.v) |-> s.v[k].index],
                               null_indices, options.nulls_first), limit))

(***************************************************************************)
(* compute/sort: the kernels of the sub-modules boolean, primitive and     *)
(* utf8 and the take kernel are not among the source files.  They are      *)
(* modelled from the sort contract: the valid indices in the order of the  *)
(* comparator (ties in any order, the sort is unstable), the null indices  *)
(* in one block before or after them, the limit applied to the merged      *)
(* sequence.                                                               *)
(***************************************************************************)
RECURSIVE total_cmp_from(_, _, _)
\* ord::total_cmp on native values, byte-lexicographic order on strings
total_cmp_from(a, b, i) ==
    IF i >= Len(a) /\ i >= Len(b) THEN "Equal"
    ELSE IF i >= Len(a) THEN "Less"
    ELSE IF i >= Len(b) THEN "Greater"
    ELSE IF a[i + 1] < b[i + 1] THEN "Less"
    ELSE IF a[i + 1] > b[i + 1] THEN "Greater"
    ELSE total_cmp_from(a, b, i + 1)

total_cmp(a, b) == total_cmp_from(a, b, 0)

\* the sequences in which every index 0..n-1 occurs once
Orders(n) ==
    {p \in [1..n -> 0..(n - 1)] : \A j, k \in 1..n : j # k => p[j] # p[k]}

\* longest array with values handed to the sort
MaxArray == 3

\* Orders, computed once for every length of an array
OrdersOfLength == [n \in 0..MaxArray |-> Orders(n)]

\* Orders(n), also for the arrays of the tests, which are longer than MaxArray
OrdersOf(n) == IF n <= MaxArray THEN OrdersOfLength[n] ELSE Orders(n)

\* the orders a kernel may produce before the limit is applied
SortedOrders(array, options) ==
    LET n == array_len(array)
        nulls == Cardinality({i \in 1..n : ~array.valid[i]})
    IN  {p \in OrdersOf(n) :
            /\ \A k \in 1..n :
                  array.valid[p[k] + 1] = IF options.nulls_first THEN k > nulls ELSE k <= n - nulls
            /\ \A j, k \in 1..n :
                  (j < k /\ array.valid[p[j] + 1] /\ array.valid[p[k] + 1]) =>
                      LET c == total_cmp(array.elems[p[j] + 1], array.elems[p[k] + 1])
                      IN  c = "Equal" \/ c = (IF options.descending THEN "Greater" ELSE "Less")}

\* primitive::indices_sorted_unstable_by and
\* utf8::indices_sorted_unstable_by_dictionary: the index sequences allowed
indices_sorted_unstable_by(array, options, limit) ==
    {truncate(p, limit) : p \in SortedOrders(array, options)}

\* utf8::indices_sorted_unstable_by: the index sequences allowed.  The valid
\* indices are in the order of the comparator, ties in any order; the null
\* indices are in ascending order in their block, as every expectation of
\* test_sort_to_indices_strings has them.
utf8_indices_sorted_unstable_by(array, options, limit) ==
    LET all    == [i \in 1..array_len(array) |-> i - 1]
        valids == select(array, all, TRUE)
        nulls  == select(array, all, FALSE)
        n      == Len(valids)
        sorted_valids ==
            {[k \in 1..n |-> valids[q[k] + 1]] : q \in
                {q \in OrdersOf(n) :
                    \A j, k \in 1..n :
                        j < k =>
                            LET c == total_cmp(array.elems[valids[q[j] + 1] + 1],
                                               array.elems[valids[q[k] + 1] + 1])
                            IN  c = "Equal"
                                \/ c = (IF options.descending THEN "Greater" ELSE "Less")}}
    IN  {truncate(merge(v, nulls, options.nulls_first), limit) : v \in sorted_valids}

\* a sequence back to front
reversed(s) == [k \in 1..Len(s) |-> s[Len(s) + 1 - k]]

\* the indices of `want` whose slot holds the boolean b, in the order of `want`
with_value(values, want, b) ==
    LET Holds(i) == values.elems[i + 1] = (IF b THEN <<1>> ELSE <<0>>)
    IN  SelectSeq(want, Holds)

\* boolean::sort_boolean: the valid indices sorted by value with equal
\* values in the order given, the null indices in the order given, and both
\* the other way round for descending with the equal values still in the
\* order given, as the expectations of test_sort_boolean have them
sort_boolean(values, value_indices, null_indices, options, limit) ==
    LET falses == with_value(values, value_indices, FALSE)
        trues  == with_value(values, value_indices, TRUE)
        valids == IF options.descending THEN trues \o falses ELSE falses \o trues
        nulls  == IF options.descending THEN reversed(null_indices) ELSE null_indices
    IN  {truncate(merge(valids, nulls, options.nulls_first), limit)}

\* take::take(values, indices)
take(values, ix) ==
    [data_type |-> values.data_type,
     valid     |-> [k \in 1..Len(ix) |-> values.valid[ix[k] + 1]],
     elems     |-> [k \in 1..Len(ix) |-> values.elems[ix[k] + 1]]]

\* primitive::sort_by behind dyn_sort!: the sorted arrays allowed
dyn_sort(values, options, limit) ==
    {Ok(take(values, ix)) : ix \in indices_sorted_unstable_by(values, options, limit)}

(***************************************************************************)
(* compute/sort: the dispatch.  sort_to_indices and sort are the sets of   *)
(* the outcomes a call may have.                                           *)
(***************************************************************************)
\* the variant of sort_dict that takes every key type
sort_dict_any_key(values, key_type, options, limit) ==
    {Ok(ix) : ix \in indices_sorted_unstable_by(values, options, limit)}

\* sort_dict(values, key_type, options, limit)
sort_dict(values, key_type, options, limit) ==
    IF key_type.tag \in IntTags
    THEN {Ok(ix) : ix \in indices_sorted_unstable_by(values, options, limit)}
    ELSE {NotYetImplemented("Sort not supported for dictionary key type", key_type)}

\* the variant of sort_to_indices that hands strings to the kernel of the
\* native values
sort_to_indices_utf8_as_native(values, options, limit) ==
    LET t == values.data_type
        p == partition_validity(values)
    IN  CASE t.tag = "Boolean" ->
               {Ok(ix) : ix \in sort_boolean(values, p[1], p[2], options, limit)}
          [] is_native(t) ->
               {Ok(ix) : ix \in indices_sorted_unstable_by(values, options, limit)}
          [] t.tag \in {"Utf8", "LargeUtf8"} ->
               {Ok(ix) : ix \in indices_sorted_unstable_by(values, options, limit)}
          [] t.tag \in ListTags ->
               IF t.a \in IntTags
               THEN {sort_list(values, p[1], p[2], options, limit)}
               ELSE {NotYetImplemented("Sort not supported for list type", Leaf(t.a))}
          [] t.tag = "Dictionary" ->
               IF t.b \in {"Utf8", "LargeUtf8"}
               THEN sort_dict(values, Leaf(t.a), options, limit)
               ELSE {NotYetImplemented("Sort not supported for dictionary type with keys",
                                       Leaf(t.b))}
          [] OTHER -> {NotYetImplemented("Sort not supported for data type", t)}

\* sort_to_indices(values, options, limit)
sort_to_indices(values, options, limit) ==
    LET t == values.data_type
        p == partition_validity(values)
    IN  CASE t.tag = "Boolean" ->
               {Ok(ix) : ix \in sort_boolean(values, p[1], p[2], options, limit)}
          [] is_native(t) ->
               {Ok(ix) : ix \in indices_sorted_unstable_by(values, options, limit)}
          [] t.tag \in {"Utf8", "LargeUtf8"} ->
               {Ok(ix) : ix \in utf8_indices_sorted_unstable_by(values, options, limit)}
          [] t.tag \in ListTags ->
               IF t.a \in IntTags
               THEN {sort_list(values, p[1], p[2], options, limit)}
               ELSE {NotYetImplemented("Sort not supported for list type", Leaf(t.a))}
          [] t.tag = "Dictionary" ->
               IF t.b \in {"Utf8", "LargeUtf8"}
               THEN sort_dict(values, Leaf(t.a), options, limit)
               ELSE {NotYetImplemented("Sort not supported for dictionary type with keys",
                                       Leaf(t.b))}
          [] OTHER -> {NotYetImplemented("Sort not supported for data type", t)}

\* the variant of sort whose native branch forgets the limit
sort_native_unlimited(values, options, limit) ==
    IF is_native(values.data_type)
    THEN dyn_sort(values, options, NoLimit)
    ELSE {IF o.kind = "Ok" THEN Ok(take(values, o.value)) ELSE o :
             o \in sort_to_indices(values, options, limit)}

\* sort(values, options, limit)
sort(values, options, limit) ==
    IF is_native(values.data_type)
    THEN dyn_sort(values, options, limit)
    ELSE {IF o.kind = "Ok" THEN Ok(take(values, o.value)) ELSE o :
             o \in sort_to_indices(values, options, limit)}

(***************************************************************************)
(* compute/sort: the calls.  One array, one SortOptions and one limit are  *)
(* chosen; sort_to_indices and sort are each called once on them.          *)
(***************************************************************************)
\* the slot of an input that is null
NullSlot == <<-1>>
\* values of the slots: list elements (of differing lengths), fixed-size
\* list elements, native values, strings, booleans
ListValues == {<<>>, <<0>>, <<1>>, <<0, 1>>}
PairValues == {<<0, 1>>, <<1, 0>>}
NativeValues == {<<0>>, <<1>>}
Strings == {<<0>>, <<0, 1>>}
NullFilledLens == {0, 2}

\* the value stored under a null slot
default_value(t) ==
    IF t.tag = "FixedSizeList" THEN <<0, 0>>
    ELSE IF is_native(t) \/ t.tag = "Boolean" THEN <<0>>
    ELSE <<>>

\* the array of type t with the given slots
array_of(t, slots) ==
    [data_type |-> t,
     valid     |-> [i \in 1..Len(slots) |-> slots[i] # NullSlot],
     elems     |-> [i \in 1..Len(slots) |-> IF slots[i] = NullSlot THEN default_value(t)
                                            ELSE slots[i]]]

\* the arrays of type t of at most MaxArray slots, null or with a value of vals
ArraysOver(t, vals) ==
    {array_of(t, slots) : slots \in UNION {[1..n -> vals \cup {NullSlot}] : n \in 0..MaxArray}}

\* arrays with values, of the types of each kernel
DataArrays ==
    ArraysOver(DT("List", "Int32", ""), ListValues)
    \cup ArraysOver(DT("FixedSizeList", "Int32", ""), PairValues)
    \cup ArraysOver(Leaf("Int32"), NativeValues)
    \cup ArraysOver(Leaf("Utf8"), Strings)
    \cup ArraysOver(Leaf("Boolean"), NativeValues)

\* the null-filled arrays of every type
NullFilledArrays ==
    {array_of(t, [i \in 1..n |-> NullSlot]) : t \in DataTypes, n \in NullFilledLens}

\* the array of test_sort_boolean: [None, false, true, true, false, None]
BooleanTestArray ==
    array_of(Leaf("Boolean"), <<NullSlot, <<0>>, <<1>>, <<1>>, <<0>>, NullSlot>>)

\* the array of test_sort_to_indices_strings, each string as its bytes:
\* [None, "bad", "sad", None, "glad", "-ad"]
StringTestArray ==
    array_of(Leaf("Utf8"), <<NullSlot, <<98, 97, 100>>, <<115, 97, 100>>, NullSlot,
                             <<103, 108, 97, 100>>, <<45, 97, 100>>>>)

TestArrays == {BooleanTestArray, StringTestArray}

\* list arrays with two equal elements and two nulls: [[1], None, [1], None, [0]]
TieArrays ==
    {array_of(DT(t, "Int32", ""), <<<<1>>, NullSlot, <<1>>, NullSlot, <<0>>>>) :
        t \in {"List", "LargeList"}}

SortOptions == [descending : BOOLEAN, nulls_first : BOOLEAN]

SortInputs ==
    {[values |-> a, options |-> o, limit |-> l] :
        a \in DataArrays, o \in SortOptions, l \in {NoLimit} \cup 0..MaxArray}
    \cup {[values |-> a, options |-> o, limit |-> l] :
        a \in NullFilledArrays, o \in SortOptions, l \in {NoLimit, 1}}
    \cup {[values |-> a, options |-> o, limit |-> NoLimit] :
        a \in TestArrays \cup TieArrays, o \in SortOptions}

\* sort_to_indices(values, options, limit)
SortToIndices ==
    /\ indices.kind = "NotRun"
    /\ indices' \in sort_to_indices(input.values, input.options, input.limit)
    /\ UNCHANGED <<input, sorted, bitmapVars, growableVars, listVars>>

\* sort(values, options, limit)
Sort ==
    /\ sorted.kind = "NotRun"
    /\ sorted' \in sort(input.values, input.options, input.limit)
    /\ UNCHANGED <<input, indices, bitmapVars, growableVars, listVars>>

InitSort ==
    /\ input \in SortInputs
    /\ indices = NotRun
    /\ sorted = NotRun
    /\ IdleBitmap
    /\ IdleGrowable
    /\ IdleList

NextSort == SortToIndices \/ Sort

\* the sort kernel on one array
SpecSort == InitSort /\ [][NextSort]_vars

(***************************************************************************)
(* compute/sort: claims                                                    *)
(***************************************************************************)
\* the slot an index points to is valid
slot_valid(i) == input.values.valid[i + 1]

\* the number of null slots of the input
input_nulls == Cardinality({i \in 1..array_len(input.values) : ~input.values.valid[i]})

is_list(t) == t.tag \in ListTags

\* every slot of the input is null
NullFilled == \A i \in 1..array_len(input.values) : ~input.values.valid[i]

\* the comparator of the input's type on two slots
slot_cmp(i, j) ==
    IF is_list(input.values.data_type)
    THEN cmp_array(input.values.elems[i + 1], input.values.elems[j + 1])
    ELSE total_cmp(input.values.elems[i + 1], input.values.elems[j + 1])

\* C2: for a sortable array and limit = None, sort_to_indices returns a
\* non-nullable index array of length len() in which every position
\* 0..len() occurs exactly once.
C2_Bijection ==
    (indices.kind # "NotRun" /\ input.limit = NoLimit /\ can_sort(input.values.data_type)) =>
        /\ indices.kind = "Ok"
        /\ ~indices.nullable
        /\ Len(indices.value) = array_len(input.values)
        /\ \A i \in 0..(array_len(input.values) - 1) :
              Cardinality({k \in 1..Len(indices.value) : indices.value[k] = i}) = 1

C4_ValidOrdered ==
    indices.kind = "Ok" =>
        \A j, k \in 1..Len(indices.value) :
            (j < k /\ slot_valid(indices.value[j]) /\ slot_valid(indices.value[k])) =>
                LET c == slot_cmp(indices.value[j], indices.value[k])
                IN  c = "Equal" \/ c = (IF input.options.descending THEN "Greater" ELSE "Less")

\* a list array of two valid elements of different lengths, in ascending
\* order around a null slot, was sorted descending
C4_Witness ==
    /\ indices.kind = "Ok"
    /\ input.values.data_type = DT("List", "Int32", "")
    /\ input.options = [descending |-> TRUE, nulls_first |-> FALSE]
    /\ input.values.valid = <<TRUE, FALSE, TRUE>>
    /\ input.values.elems = <<<<0, 1>>, <<>>, <<1>>>>
    /\ indices.value = <<2, 0, 1>>

\* the first k entries of a sequence, all of it when it is shorter
Prefix(seq, k) == SubSeq(seq, 1, Min(k, Len(seq)))

\* C5: the result of a sort with limit = Some(k) has length min(k, len())
\* and is the first min(k, len()) entries of a result of the same sort with
\* limit = None, for sort_to_indices and for sort; the limit cuts the merged
\* sequence of nulls and valids.
C5_LimitPrefix ==
    LET k == input.limit
        n == array_len(input.values)
    IN  /\ (indices.kind = "Ok" /\ k # NoLimit) =>
              /\ Len(indices.value) = Min(k, n)
              /\ \E full \in sort_to_indices(input.values, input.options, NoLimit) :
                    full.kind = "Ok" /\ indices.value = Prefix(full.value, k)
        /\ (sorted.kind = "Ok" /\ k # NoLimit) =>
              /\ array_len(sorted.value) = Min(k, n)
              /\ \E full \in sort(input.values, input.options, NoLimit) :
                    /\ full.kind = "Ok"
                    /\ sorted.value.valid = Prefix(full.value.valid, k)
                    /\ sorted.value.elems = Prefix(full.value.elems, k)

\* a list array of two nulls around a valid slot was sorted nulls first with
\* limit 1, which cuts into the nulls, by both operations
C5_Witness ==
    /\ indices.kind = "Ok" /\ sorted.kind = "Ok"
    /\ is_list(input.values.data_type)
    /\ input.limit = 1
    /\ input.options.nulls_first
    /\ input.values.valid = <<FALSE, TRUE, FALSE>>
    /\ indices.value = <<0>>

\* C6: can_sort(t) is true exactly when sort and sort_to_indices on a
\* null-filled array of type t return Ok.
C6_CanSortIffOk ==
    (indices.kind # "NotRun" /\ sorted.kind # "NotRun" /\ NullFilled) =>
        (can_sort(input.values.data_type) <=> (indices.kind = "Ok" /\ sorted.kind = "Ok"))

\* the types the sort is defined for: booleans, native numerics (temporal
\* types without a time zone included), strings, lists of an integer child
\* type, dictionaries of string values under integer keys
Supported(t) ==
    \/ t.tag \in {"Boolean", "Utf8", "LargeUtf8"}
    \/ t.tag \in IntTags \cup {"Float32", "Float64", "Date32", "Date64", "Time32", "Time64",
                               "Duration", "Interval"}
    \/ t.tag = "Timestamp" /\ t.b = ""
    \/ is_list(t) /\ t.a \in IntTags
    \/ t.tag = "Dictionary" /\ t.a \in IntTags /\ t.b \in {"Utf8", "LargeUtf8"}

\* the part of an unsupported type that makes it unsupported: the child
\* type of a list, the value type of a dictionary that is not a string, the
\* key type of a dictionary of strings, the type itself otherwise
rejected_type(t) ==
    CASE is_list(t) -> Leaf(t.a)
      [] t.tag = "Dictionary" -> IF t.b \in {"Utf8", "LargeUtf8"} THEN Leaf(t.a) ELSE Leaf(t.b)
      [] OTHER -> t

\* the outcome is Err(NotYetImplemented) with the rejected type in the
\* message and no value
IsUnsupportedErr(outcome) ==
    /\ outcome.kind = "Err"
    /\ outcome.err.text # ""
    /\ outcome.err.type = rejected_type(input.values.data_type)
    /\ outcome.value = <<>>

\* C7: on an unsupported type sort and sort_to_indices return
\* Err(NotYetImplemented) with a message that names the rejected type; they
\* do not panic and return no value.
C7_UnsupportedErr ==
    ~Supported(input.values.data_type) =>
        /\ indices.kind # "NotRun" => IsUnsupportedErr(indices)
        /\ sorted.kind # "NotRun" => IsUnsupportedErr(sorted)

\* both operations were called on a dictionary of strings under string keys
\* and on a list of a child type that is not an integer type
C7_Witness ==
    /\ indices.kind = "Err" /\ sorted.kind = "Err"
    /\ input.values.data_type = DT("Dictionary", "Utf8", "LargeUtf8")
    /\ indices.err = [text |-> "Sort not supported for dictionary key type", type |-> Leaf("Utf8")]
    /\ sorted.err = indices.err

MaxList == 4
\* most slices taken one of the other
MaxSlices == 2

\* the element sizes of the data types
Sizes == {1, 2, 3}

\* Array::slice of the child array
child_slice(values, offset, length) == SubSeq(values, offset + 1, offset + length)

\* new_null_array(child_type, length): `length` null values
new_null_array(length) == [k \in 1..length |-> 0]

\* Bitmap::new_zeroed(length)
new_zeroed(length) == Some(zeroed(BytesFor(length)), 0, length)

\* the assertion of from_data: values.len() % size == 0
fsl_consistent(size, values) == Len(values) % size = 0

\* FixedSizeListArray::from_data(data_type, values, validity), size being
\* the size of data_type; the caller keeps the assertion
fsl_from_data(size, values, validity) ==
    [size |-> size, values |-> values, validity |-> validity, offset |-> 0]

\* the variant of slice that slices the child array in elements of the child
fsl_slice_child_units(array, offset, length) ==
    [size     |-> array.size,
     values   |-> child_slice(array.values, offset, length * array.size),
     validity |-> IF array.validity = None THEN None
                  ELSE bitmap_slice(array.validity, offset, length),
     offset   |-> array.offset + offset]

\* FixedSizeListArray::slice(offset, length)
fsl_slice(array, offset, length) ==
    [size     |-> array.size,
     values   |-> child_slice(array.values, offset * array.size, length * array.size),
     validity |-> IF array.validity = None THEN None
                  ELSE bitmap_slice(array.validity, offset, length),
     offset   |-> array.offset + offset]

\* FixedSizeListArray::value(i)
fsl_value(array, i) == child_slice(array.values, i * array.size, array.size)

\* Array::len of a FixedSizeListArray
fsl_len(array) == Len(array.values) \div array.size

\* the values and the validity FixedSizeListArray::new_null hands to from_data
fsl_new_null(size, length) ==
    fsl_from_data(size, new_null_array(length), new_zeroed(length))

\* the child values of an array of n elements: 1, 2, .., n * size
ChildValues(size, n) == [k \in 1..(n * size) |-> k]

\* the validities of an array of n elements: none, or one of two patterns
Validities(n) ==
    {None} \cup {Some(from_trusted_len_iter(Pattern(n, k, FALSE)).buffer, 0, n) : k \in 2..3}

\* FixedSizeListArray::from_data on child values 1, 2, .. of any length
FromData ==
    \E size \in Sizes, m \in 0..(MaxList * 3) :
        /\ list.op = "none"
        /\ m <= MaxList * size
        /\ IF fsl_consistent(size, [k \in 1..m |-> k])
           THEN \E validity \in Validities(m \div size) :
                   list' = [NoList EXCEPT !.op = "from_data", !.made_by = "from_data",
                                          !.array = fsl_from_data(size, ChildValues(size, m \div size),
                                                                  validity),
                                          !.size = size, !.length = m]
           ELSE list' = [NoList EXCEPT !.op = "from_data", !.made_by = "from_data",
                                       !.panic = TRUE, !.size = size, !.length = m]
        /\ UNCHANGED <<bitmapVars, growableVars, sortVars>>

\* FixedSizeListArray::new_null(data_type, length)
NewNull ==
    \E size \in Sizes, length \in 0..MaxList :
        /\ list.op = "none"
        /\ IF fsl_consistent(size, new_null_array(length))
           THEN list' = [NoList EXCEPT !.op = "new_null", !.made_by = "new_null",
                                       !.array = fsl_new_null(size, length),
                                       !.size = size, !.length = length]
           ELSE list' = [NoList EXCEPT !.op = "new_null", !.made_by = "new_null",
                                       !.panic = TRUE, !.size = size, !.length = length]
        /\ UNCHANGED <<bitmapVars, growableVars, sortVars>>

\* FixedSizeListArray::slice(offset, length) within the array
Slice ==
    \E offset \in 0..MaxList, length \in 0..MaxList :
        /\ list.op # "none" /\ ~list.panic
        /\ list.slices < MaxSlices
        /\ offset + length <= fsl_len(list.array)
        /\ list' = [list EXCEPT !.op = "slice",
                                !.array = fsl_slice(list.array, offset, length),
                                !.parent = list.array,
                                !.offset = offset, !.length = length,
                                !.slices = @ + 1]
        /\ UNCHANGED <<bitmapVars, growableVars, sortVars>>

InitList == IdleList /\ IdleBitmap /\ IdleGrowable /\ IdleSort

NextList == FromData \/ NewNull \/ Slice

\* a FixedSizeListArray that is constructed, then sliced
SpecList == InitList /\ [][NextList]_vars

\* C18: value(i) is the child sub-slice [i * s, (i + 1) * s) of the values;
\* slice(offset, length) with offset + length <= len() has len() = length,
\* its value(i) is value(offset + i), its validity bit i the validity bit
\* offset + i, its offset the offset of the array plus `offset`; slices of
\* slices add up.
C18_ValueAndSlice ==
    LET a == list.array
        s == list.size
    IN  /\ (list.made_by = "from_data" /\ ~list.panic) =>
              \A i \in 0..(fsl_len(a) - 1) :
                  /\ fsl_value(a, i) = SubSeq(a.values, i * s + 1, (i + 1) * s)
                  /\ fsl_value(a, i) = [k \in 1..s |-> (a.offset + i) * s + k]
        /\ list.op = "slice" =>
              /\ fsl_len(a) = list.length
              /\ a.offset = list.parent.offset + list.offset
              /\ \A i \in 0..(list.length - 1) :
                    /\ fsl_value(a, i) = fsl_value(list.parent, list.offset + i)
                    /\ is_valid(a, i) = is_valid(list.parent, list.offset + i)

\* an array of elements of size 2 with nulls was sliced at an offset, and
\* the slice sliced again at an offset
C18_Witness ==
    /\ list.op = "slice" /\ list.made_by = "from_data"
    /\ list.slices = 2 /\ list.size = 2
    /\ list.offset = 1 /\ list.length = 1
    /\ list.array.offset = 2
    /\ list.array.validity # None
    /\ fsl_value(list.array, 0) = <<5, 6>>

\* C19: new_null(data_type, length) returns, for every size >= 1 and every
\* length, an array of len() = length whose child values have length
\* len() * size and whose validity has len() bits, all unset; it does not
\* panic.
C19_NewNull ==
    list.op = "new_null" =>
        /\ ~list.panic
        /\ fsl_len(list.array) = list.length
        /\ Len(list.array.values) = fsl_len(list.array) * list.size
        /\ list.array.validity.some
        /\ list.array.validity.length = fsl_len(list.array)
        /\ \A i \in 0..(fsl_len(list.array) - 1) : ~is_valid(list.array, i)

RECURSIVE first_difference(_, _, _)
\* the first non-equal pairwise result of two elements from position i on,
\* the shorter element being less when the common positions are equal
first_difference(a, b, i) ==
    IF i >= Len(a) /\ i >= Len(b) THEN "Equal"
    ELSE IF i >= Len(a) THEN "Less"
    ELSE IF i >= Len(b) THEN "Greater"
    ELSE IF a[i + 1] < b[i + 1] THEN "Less"
    ELSE IF a[i + 1] > b[i + 1] THEN "Greater"
    ELSE first_difference(a, b, i + 1)

\* one sequence is a strict prefix of the other
StrictPrefix(a, b) == Len(a) < Len(b) /\ SubSeq(b, 1, Len(a)) = a

\* C20: in the sort of a list array two valid elements are compared child
\* position by child position, the first non-equal pairwise result decides,
\* and an element that is a strict prefix of another compares Less than it
\* (the other Greater), so that it comes first in ascending order.
C20_ShorterIsLess ==
    (indices.kind # "NotRun" /\ is_list(input.values.data_type)
         /\ can_sort(input.values.data_type)) =>
        \A i, j \in 0..(array_len(input.values) - 1) :
            (slot_valid(i) /\ slot_valid(j)) =>
                /\ slot_cmp(i, j) = first_difference(list_value(input.values, i),
                                                     list_value(input.values, j), 0)
                /\ (StrictPrefix(list_value(input.values, i), list_value(input.values, j))
                        /\ ~input.options.descending /\ input.limit = NoLimit) =>
                      /\ indices.kind = "Ok"
                      /\ \A k, l \in 1..Len(indices.value) :
                            (indices.value[k] = i /\ indices.value[l] = j) => k < l

(***************************************************************************)
(* MutableBitmap: the constructors                                         *)
(***************************************************************************)
\* MutableBitmap::from_len_zeroed(length)
from_len_zeroed(length) == [buffer |-> zeroed(BytesFor(length)), length |-> length]

\* MutableBitmap::with_capacity(capacity): the capacity is reserved, the
\* buffer holds no byte
with_capacity(capacity) == [buffer |-> <<>>, length |-> 0]

\* an assertion of from_buffer that counts the buffer in bits, not bytes
from_buffer_accepts_bytes(buffer, length) == length <= Len(buffer)

\* the assertion of from_buffer: assert!(length <= buffer.len() * 8)
from_buffer_accepts(buffer, length) == length <= Len(buffer) * 8

\* MutableBitmap::from_buffer(buffer, length), past its assertion
from_buffer(buffer, length) == [buffer |-> buffer, length |-> length]

\* the buffers handed to from_buffer: none, one and two bytes
Buffers == {<<>>} \cup Slices

\* the lengths handed to from_buffer: around the byte boundaries
BufferLengths == {0, 1, 8, 9, 16, 17}

\* `last` after a constructor: the arguments, and no state before it
Constructed(op, it, additional, index) ==
    [NoOp EXCEPT !.op = op, !.it = it, !.additional = additional, !.index = index,
                 !.pre_pushes = FALSE, !.steps = 1]

\* MutableBitmap::from_buffer(buffer, length), with its panic; `last` keeps
\* length as additional and buffer.len() as index
FromBuffer ==
    \E buffer \in Buffers, length \in BufferLengths :
        /\ last = NoOp
        /\ IF from_buffer_accepts(buffer, length)
           THEN /\ bitmap' = from_buffer(buffer, length)
                /\ returned' = Unit
           ELSE /\ bitmap' = bitmap
                /\ returned' = Panicked
        /\ vec' = Bits(bitmap')
        /\ last' = Constructed("from_buffer", <<>>, length, Len(buffer))
        /\ UNCHANGED <<growableVars, sortVars, listVars>>

NextBulk == FromBuffer \/ FromData

\* the bulk constructors, each called once
SpecBulk == InitBitmap /\ [][NextBulk]_vars

\* C21: from_buffer(buffer, length) panics if and only if
\* length > 8 * buffer.len(), and FixedSizeListArray::from_data panics if
\* and only if values.len() is not a multiple of the size; when they do not
\* panic, len() is length, resp. values.len() / size.
C21_BulkConstructors ==
    /\ last.op = "from_buffer" =>
          /\ (returned = Panicked) <=> (last.additional > 8 * last.index)
          /\ returned # Panicked => len(bitmap) = last.additional
    /\ list.op = "from_data" =>
          /\ list.panic <=> (list.length % list.size # 0)
          /\ ~list.panic => fsl_len(list.array) = list.length \div list.size

\* from_buffer took one byte with length 8, and from_data panicked on three
\* values for size 2
C21_Witness ==
    /\ last.op = "from_buffer" /\ returned = Unit
    /\ last.additional = 8 /\ last.index = 1 /\ len(bitmap) = 8
    /\ list.op = "from_data" /\ list.panic /\ list.size = 2 /\ list.length = 3

(***************************************************************************)
(* compute/sort: the scenarios of the tests                                *)
(***************************************************************************)
\* the indices of the input, ascending, whose slot satisfies the test
ascending_indices(Test(_)) ==
    SelectSeq([i \in 1..array_len(input.values) |-> i - 1], Test)

slot_null(i) == ~slot_valid(i)
slot_false(i) == slot_valid(i) /\ input.values.elems[i + 1] = <<0>>
slot_true(i) == slot_valid(i) /\ input.values.elems[i + 1] = <<1>>

AscendingNullsFirst == [descending |-> FALSE, nulls_first |-> TRUE]

C24_ValidityLength ==
    \A k \in 1..Len(result) :
        /\ Len(result[k].values) = Len(appended_by(calls_of(k)))
        /\ result[k].validity.some => result[k].validity.length = Len(result[k].values)

(***************************************************************************)
(* MutableBitmap: a constructor, then the operations                       *)
(***************************************************************************)
\* the lengths handed to from_len_zeroed
ZeroedLengths == {0, 3, 8, 12}

\* the capacities handed to with_capacity
Capacities == {0, 9}

\* MutableBitmap::from_len_zeroed(length)
FromLenZeroed ==
    \E length \in ZeroedLengths :
        /\ last = NoOp
        /\ bitmap' = from_len_zeroed(length)
        /\ vec' = Bits(bitmap')
        /\ last' = Constructed("from_len_zeroed", <<>>, length, 0)
        /\ UNCHANGED <<returned, growableVars, sortVars, listVars>>

\* MutableBitmap::with_capacity(capacity)
WithCapacity ==
    \E capacity \in Capacities :
        /\ last = NoOp
        /\ bitmap' = with_capacity(capacity)
        /\ vec' = Bits(bitmap')
        /\ last' = Constructed("with_capacity", <<>>, capacity, 0)
        /\ UNCHANGED <<returned, growableVars, sortVars, listVars>>

NextConstruct ==
    \/ FromBuffer \/ FromLenZeroed \/ WithCapacity
    \/ PushAny \/ ExtendConstant \/ ExtendFromTrustedLenIter \/ ExtendFromSlice \/ Set

\* a MutableBitmap from new or another constructor, under its operations
SpecConstruct == InitBitmap /\ [][NextConstruct]_vars

\* C25: in every state reachable from new, with_capacity, from_len_zeroed or
\* from_buffer through push, extend_constant, extend_from_trusted_len_iter,
\* extend_from_slice and set, the buffer holds exactly ceil(length / 8)
\* bytes, so that the byte push writes is the byte of bit `length`.
C25_BufferIsCeilLength ==
    /\ Len(bitmap.buffer) = BytesFor(bitmap.length)
    /\ (last.op = "push" /\ returned = Unit) => get(bitmap, last.pre.length) = last.value

\* the last operation appended no element
ZeroExtension(op, pre, post) ==
    /\ op \in {"extend_from_trusted_len_iter", "extend_constant", "extend_from_slice"}
    /\ post.length = pre.length

\* C26: extending with zero elements (extend_from_trusted_len_iter over an
\* empty iterator, extend_constant(0, v), extend_from_slice with length 0)
\* leaves the length, the bits and the byte length of the buffer unchanged,
\* so that a following push(v) makes get(old_len) = v.
C26_ZeroExtensionIsNoOp ==
    /\ (ZeroExtension(last.op, last.pre, bitmap)
            /\ (last.op = "extend_constant" => last.additional = 0)
            /\ (last.op # "extend_constant" => last.it = <<>>)) =>
          /\ len(bitmap) = len(last.pre)
          /\ Bits(bitmap) = Bits(last.pre)
          /\ Len(bitmap.buffer) = Len(last.pre.buffer)
    /\ (last.op = "push" /\ ZeroExtension(last.prev.op, last.prev.pre, last.pre)) =>
          get(bitmap, len(last.pre)) = last.value

(***************************************************************************)
(* MutableBitmap: set                                                      *)
(***************************************************************************)
\* the last call was set(index, value) with index < len()
SetInRange == last.op = "set" /\ last.index < len(last.pre)

\* the last two calls were set(index, true) and set(index, false) with
\* index < len()
SetTrueThenFalse ==
    /\ SetInRange /\ ~last.value
    /\ last.prev.op = "set" /\ last.prev.value
    /\ last.prev.index = last.index
    /\ last.index < len(last.prev.pre)

\* set(index, value) with index < len() makes get(index) = value and leaves
\* len() and every other bit as they were
SetWritesOneBit ==
    SetInRange =>
        /\ returned = Unit
        /\ get(bitmap, last.index) = last.value
        /\ len(bitmap) = len(last.pre)
        /\ \A i \in 0..(len(bitmap) - 1) :
              i # last.index => get(bitmap, i) = get(last.pre, i)

\* C27 as stated: set(index, value) writes the one bit, and setting a bit to
\* true and then to false restores the previous contents.
C27_SetRestores ==
    /\ SetWritesOneBit
    /\ SetTrueThenFalse => bitmap = last.prev.pre

\* C27: set(index, value) with index < len() makes get(index) = value and
\* leaves len() and every other bit unchanged; setting a bit that was unset
\* to true and then to false restores the previous contents.
C27_SetRestoresUnset ==
    /\ SetWritesOneBit
    /\ (SetTrueThenFalse /\ ~get(last.prev.pre, last.index)) => bitmap = last.prev.pre

\* the last, unset bit of a bitmap with a set bit was set to true and then
\* to false
C27_Witness ==
    /\ SetTrueThenFalse
    /\ ~get(last.prev.pre, last.index)
    /\ last.index = len(bitmap) - 1 /\ last.index > 0
    /\ get(last.pre, last.index) /\ ~get(bitmap, last.index)
    /\ get(bitmap, 0)
    /\ bitmap = last.prev.pre

(***************************************************************************)
(* MutableBitmap: constructors from a sequence of booleans                 *)
(***************************************************************************)
\* the loop of FromIterator::from_iter: up to 8 values are collected into a
\* byte; the loop ends without a byte when the iterator had none for it, and
\* after the byte when the iterator ended inside it
RECURSIVE from_iter_loop(_, _, _)
from_iter_loop(buffer, length, it) ==
    LET exhausted == Len(it) < 8
        taken == IF exhausted THEN it ELSE SubSeq(it, 1, 8)
        byte_accum == set_trues(0, 0, taken)
    IN  IF exhausted /\ taken = <<>>
        THEN [buffer |-> buffer, length |-> length]
        ELSE IF exhausted
             THEN [buffer |-> Append(buffer, byte_accum), length |-> length + Len(taken)]
             ELSE from_iter_loop(Append(buffer, byte_accum), length + 8,
                                 SubSeq(it, 9, Len(it)))

\* the variant of from_iter that ends at the last whole byte
from_iter_whole_bytes(it) ==
    from_iter_loop(<<>>, 0, SubSeq(it, 1, 8 * (Len(it) \div 8)))

\* FromIterator<bool>::from_iter(iter)
from_iter(it) == from_iter_loop(<<>>, 0, it)

\* From<P: AsRef<[bool]>>::from(slice)
from_slice(slice) == from_trusted_len_iter(slice)

\* iter.collect::<MutableBitmap>()
FromIter ==
    \E it \in LongIters :
        /\ last = NoOp
        /\ bitmap' = from_iter(it)
        /\ vec' = it
        /\ last' = Constructed("from_iter", it, 0, 0)
        /\ UNCHANGED <<returned, growableVars, sortVars, listVars>>

\* MutableBitmap::from_trusted_len_iter(iterator)
FromTrustedLenIter ==
    \E it \in LongIters :
        /\ last = NoOp
        /\ bitmap' = from_trusted_len_iter(it)
        /\ vec' = it
        /\ last' = Constructed("from_trusted_len_iter", it, 0, 0)
        /\ UNCHANGED <<returned, growableVars, sortVars, listVars>>

\* MutableBitmap::from(slice)
FromSlice ==
    \E slice \in LongIters :
        /\ last = NoOp
        /\ bitmap' = from_slice(slice)
        /\ vec' = slice
        /\ last' = Constructed("from", slice, 0, 0)
        /\ UNCHANGED <<returned, growableVars, sortVars, listVars>>

NextFrom == FromIter \/ FromTrustedLenIter \/ FromSlice

\* each constructor from a sequence of booleans, called once
SpecFrom == InitBitmap /\ [][NextFrom]_vars

\* 1 when s has a set element at position i (from 0), else 0
bit_of(s, i) == IF i < Len(s) /\ s[i + 1] THEN 1 ELSE 0

\* byte k (from 0) of s stored least-significant-bit first
lsb_byte(s, k) ==
    bit_of(s, 8 * k) + 2 * bit_of(s, 8 * k + 1) + 4 * bit_of(s, 8 * k + 2)
    + 8 * bit_of(s, 8 * k + 3) + 16 * bit_of(s, 8 * k + 4) + 32 * bit_of(s, 8 * k + 5)
    + 64 * bit_of(s, 8 * k + 6) + 128 * bit_of(s, 8 * k + 7)

\* C28: from_iter, from_trusted_len_iter and From<&[bool]> of a sequence s
\* yield a bitmap with len() = |s| whose bit i is s[i], stored
\* least-significant-bit first in ceil(|s| / 8) bytes, for every length.
C28_FromSequence ==
    last.op \in {"from_iter", "from_trusted_len_iter", "from"} =>
        /\ len(bitmap) = Len(last.it)
        /\ Len(bitmap.buffer) = BytesFor(Len(last.it))
        /\ \A i \in 0..(Len(last.it) - 1) : get(bitmap, i) = last.it[i + 1]
        /\ \A k \in 0..(Len(bitmap.buffer) - 1) : bitmap.buffer[k + 1] = lsb_byte(last.it, k)

\* from_iter of 9 values, the last one set, gave the bytes 0b01010101 and 1
C28_Witness ==
    /\ last.op = "from_iter"
    /\ Len(last.it) = 9 /\ last.it[9] /\ ~last.it[2]
    /\ bitmap = [length |-> 9, buffer |-> <<85, 1>>]

(***************************************************************************)
(* compute/sort: sort_list keeps the order of equal elements               *)
(***************************************************************************)
\* the position (from 1) of index i in the indices returned, 0 if absent
position(i) ==
    IF \E k \in 1..Len(indices.value) : indices.value[k] = i
    THEN CHOOSE k \in 1..Len(indices.value) : indices.value[k] = i
    ELSE 0

\* when both i and j are among the indices returned, i comes first
Before(i, j) == position(i) > 0 /\ position(j) > 0 => position(i) < position(j)

\* C29: in the sort of a list array, valid elements that compare Equal keep
\* their ascending original-index order in the output, for descending false
\* and true, and the null indices appear in ascending index order.
C29_ListStable ==
    (indices.kind = "Ok" /\ is_list(input.values.data_type)
         /\ can_sort(input.values.data_type)) =>
        \A i, j \in 0..(array_len(input.values) - 1) :
            i < j =>
                /\ (slot_valid(i) /\ slot_valid(j) /\ slot_cmp(i, j) = "Equal") => Before(i, j)
                /\ (~slot_valid(i) /\ ~slot_valid(j)) => Before(i, j)

\* the descending sort of [[1], None, [1], None, [0]], nulls first, returned
\* the nulls 1, 3, the equal elements 0, 2 and then 4
C29_Witness ==
    /\ input.values \in TieArrays
    /\ input.options.descending /\ input.options.nulls_first
    /\ indices = Ok(<<1, 3, 0, 2, 4>>)

====
